---------------------------- MODULE Spec2Model ----------------------------
(***************************************************************************)
(* Model of src/src/monitor/monitor_agent.py, class                        *)
(* IndianStockDataCollector: the signal classifier                         *)
(* (_determine_signal_strength), the sector aggregator (analyze_sectors),  *)
(* the market assessor (assess_market_overview), the indicator functions   *)
(* (_calculate_rsi ... _calculate_ema), the two collection loops and       *)
(* run_comprehensive_data_collection.                                      *)
(*                                                                         *)
(* Numbers.  The program computes in binary floating point.  The model     *)
(* computes in exact rational arithmetic over integers:                    *)
(*   - a price is a positive integer;                                      *)
(*   - price_change_pct is an integer count of 1/PctScale percent          *)
(*     (PctScale = 2: the value 3 stands for +1.5 %);                      *)
(*   - a quotient is a record [n |-> numerator, d |-> denominator > 0]     *)
(*     and comparisons cross-multiply;                                     *)
(*   - a standard deviation is kept as its square (the variance).          *)
(* The input domains hold only values on which the floating-point          *)
(* evaluation of the program's comparisons agrees with the exact one       *)
(* (halves of a percent, small integers).  A price quotient of exactly     *)
(* 1.02 or 0.98 is kept out of PriceDomain: in binary64 1.02 - 1 > 0.02.   *)
(***************************************************************************)
EXTENDS Integers, Sequences, FiniteSets, TLC

VARIABLES
  pc,               \* position of the modelled call sequence
  prices,           \* argument prices (closes) of the classifier and of the
                    \* indicator functions
  rsi,              \* _determine_signal_strength: argument rsi
  macd,             \* _determine_signal_strength: argument macd
  signals,          \* _determine_signal_strength: local list signals
  signal_strength,  \* _determine_signal_strength: returned label
  stock_data,       \* List[StockData] handed to the aggregators
  sector_analyses,  \* result of analyze_sectors
  market_overview,  \* result of assess_market_overview
  period,           \* indicator functions: argument period (or window)
  fast,             \* _calculate_macd: argument fast
  slow,             \* _calculate_macd: argument slow
  result,           \* returned value of the modelled call (an indicator
                    \* function, or run_comprehensive_data_collection)
  raised,           \* exception that left the modelled call
  symbols,          \* the list both collection loops iterate
  cursor,           \* number of symbols the running loop has finished
  technical_indicators,  \* result of calculate_technical_indicators
  short_fetch,      \* what the "5d" fetch of each finished symbol gave
  long_fetch,       \* what the "1y" fetch of each finished symbol gave
  trace             \* the steps of the run finished so far, in order, each
                    \* with the snapshot list it was handed

vars == <<pc, prices, rsi, macd, signals, signal_strength,
          stock_data, sector_analyses, market_overview,
          period, fast, slow, result, raised,
          symbols, cursor, technical_indicators, short_fetch, long_fetch,
          trace>>

signalVars == <<prices, rsi, macd, signals, signal_strength>>
aggVars == <<stock_data, sector_analyses, market_overview>>
indVars == <<period, fast, slow, result, raised>>
loopVars == <<symbols, cursor, technical_indicators, short_fetch, long_fetch>>
runVars == <<symbols, cursor, technical_indicators, short_fetch, long_fetch,
             trace>>

None == "None"

(***************************************************************************)
(* Bounds of the model.                                                    *)
(***************************************************************************)
MaxPrices == 6        \* longest price series handed to the classifier
MaxSectorInput == 7   \* longest snapshot list of the sector input family
MaxMarketInput == 4   \* longest snapshot list of the market input family
MaxSeries == 5        \* longest price series handed to an indicator function
MaxPeriod == 3        \* largest period, window, fast or slow argument
UniverseSize == 2     \* number of symbols of the scaled registry
StocksPerSector == 1  \* symbols each sector of the scaled registry lists
MaxSymbols == 2       \* longest list handed to collect_stock_data on its own

PctScale == 2         \* resolution of price_change_pct: 1/PctScale percent

PriceDomain == {97, 100, 103}
RsiDomain == {15, 20, 25, 30, 50, 70, 75, 80, 85}
MacdDomain == {-1, 0, 1}

(***************************************************************************)
(* Exact arithmetic helpers.                                               *)
(***************************************************************************)
Rat(a, b) == [n |-> a, d |-> b]
RatGt(x, y) == x.n * y.d > y.n * x.d
RatLt(x, y) == x.n * y.d < y.n * x.d
RatEq(x, y) == x.n * y.d = y.n * x.d

RECURSIVE SumSeq(_)
SumSeq(s) == IF s = <<>> THEN 0 ELSE Head(s) + SumSeq(Tail(s))

RECURSIVE SumSq(_)
SumSq(s) == IF s = <<>> THEN 0 ELSE Head(s) * Head(s) + SumSq(Tail(s))

SeqsUpTo(S, k) == UNION {[1..m -> S] : m \in 0..k}

\* Python negative index: s[-k]
FromEnd(s, k) == s[Len(s) - k + 1]

(***************************************************************************)
(* _calculate_momentum (lines 1091-1097): (prices[-1] / prices[-period-1]) *)
(* - 1, and 0.0 for fewer than period + 1 prices.                          *)
(***************************************************************************)
calculate_momentum(p, n) ==
  IF Len(p) < n + 1 THEN Rat(0, 1)
  ELSE Rat(FromEnd(p, 1) - FromEnd(p, n + 1), FromEnd(p, n + 1))

(***************************************************************************)
(* _determine_signal_strength (lines 1136-1182).                           *)
(***************************************************************************)
\* RsiSignal with inclusive thresholds (>= 80, >= 70, <= 20, <= 30)
RsiSignalInclusive(r) ==
  IF r >= 80 THEN -2
  ELSE IF r >= 70 THEN -1
  ELSE IF r <= 20 THEN 2
  ELSE IF r <= 30 THEN 1
  ELSE 0

\* lines 1141-1150: the RSI term
RsiSignal(r) ==
  IF r > 80 THEN -2
  ELSE IF r > 70 THEN -1
  ELSE IF r < 20 THEN 2
  ELSE IF r < 30 THEN 1
  ELSE 0

\* MacdSignal with the weight of a strong RSI term (+2 / -2)
MacdSignalWeighted(m) ==
  IF m > 0 THEN 2
  ELSE IF m < 0 THEN -2
  ELSE 0

\* lines 1153-1158: the MACD term
MacdSignal(m) ==
  IF m > 0 THEN 1
  ELSE IF m < 0 THEN -1
  ELSE 0

\* line 1162: recent_trend = (prices[-1] / prices[-5]) - 1
RecentTrend(p) == Rat(FromEnd(p, 1) - FromEnd(p, 5), FromEnd(p, 5))

\* lines 1163-1168: the term a trend value contributes
TrendTerm(t) ==
  IF RatGt(t, Rat(2, 100)) THEN 1
  ELSE IF RatLt(t, Rat(-2, 100)) THEN -1
  ELSE 0

\* TrendSignals with the offset of _calculate_momentum(prices, 5)
TrendSignalsMomentum(p) ==
  IF Len(p) >= 6 THEN <<TrendTerm(calculate_momentum(p, 5))>> ELSE <<>>

\* lines 1161-1168: the terms appended for the price trend (none when
\* fewer than 5 prices exist)
TrendSignals(p) ==
  IF Len(p) >= 5 THEN <<TrendTerm(RecentTrend(p))>> ELSE <<>>

\* lines 1138-1168: the list signals
SignalList(p, r, m) == <<RsiSignal(r), MacdSignal(m)>> \o TrendSignals(p)

\* SignalLabel with strict boundaries (> 3, > 1, < -3, < -1)
SignalLabelStrict(total) ==
  IF total > 3 THEN "STRONG_UP"
  ELSE IF total > 1 THEN "UP"
  ELSE IF total < -3 THEN "STRONG_DOWN"
  ELSE IF total < -1 THEN "DOWN"
  ELSE "NEUTRAL"

\* lines 1173-1182: label of the summed score
SignalLabel(total) ==
  IF total >= 3 THEN "STRONG_UP"
  ELSE IF total >= 1 THEN "UP"
  ELSE IF total <= -3 THEN "STRONG_DOWN"
  ELSE IF total <= -1 THEN "DOWN"
  ELSE "NEUTRAL"

determine_signal_strength(p, r, m) == SignalLabel(SumSeq(SignalList(p, r, m)))

(***************************************************************************)
(* The classifier applied to one input, drawn in InitSignal.               *)
(***************************************************************************)
IdleAgg ==
  /\ stock_data = <<>>
  /\ sector_analyses = <<>>
  /\ market_overview = None

IdleInd ==
  /\ period = 0
  /\ fast = 0
  /\ slow = 0
  /\ result = None
  /\ raised = None

IdleRun ==
  /\ symbols = <<>>
  /\ cursor = 0
  /\ technical_indicators = <<>>
  /\ short_fetch = <<>>
  /\ long_fetch = <<>>
  /\ trace = <<>>

InitSignal ==
  /\ pc = "classify"
  /\ prices \in SeqsUpTo(PriceDomain, MaxPrices)
  /\ rsi \in RsiDomain
  /\ macd \in MacdDomain
  /\ signals = <<>>
  /\ signal_strength = None
  /\ IdleAgg
  /\ IdleInd
  /\ IdleRun

DetermineSignalStrength ==
  /\ pc = "classify"
  /\ signals' = SignalList(prices, rsi, macd)
  /\ signal_strength' = determine_signal_strength(prices, rsi, macd)
  /\ pc' = "classified"
  /\ UNCHANGED <<prices, rsi, macd>>
  /\ UNCHANGED aggVars
  /\ UNCHANGED indVars
  /\ UNCHANGED runVars

NextSignal == DetermineSignalStrength

SpecSignal == InitSignal /\ [][NextSignal]_vars

(***************************************************************************)
(* StockData (lines 31-44), reduced to the fields the aggregators read:    *)
(* symbol, sector, price_change_pct (in 1/PctScale percent), volume.       *)
(***************************************************************************)
StockData(sym, sec, pct, vol) ==
  [symbol |-> sym, sector |-> sec, price_change_pct |-> pct, volume |-> vol]

\* [f(x) for x in s]
PctOf(s) == [i \in 1..Len(s) |-> s[i].price_change_pct]
VolumeOf(s) == [i \in 1..Len(s) |-> s[i].volume]
SymbolOf(s) == [i \in 1..Len(s) |-> s[i].symbol]

\* PositiveCount that counts a zero change as advancing
PositiveCountInclusive(ch) == Cardinality({i \in 1..Len(ch) : ch[i] >= 0})

\* len([p for p in price_changes if p > 0]) and ... if p < 0
PositiveCount(ch) == Cardinality({i \in 1..Len(ch) : ch[i] > 0})
NegativeCount(ch) == Cardinality({i \in 1..Len(ch) : ch[i] < 0})

\* np.mean of percent changes, in percent
MeanPct(ch) == Rat(SumSeq(ch), Len(ch) * PctScale)

\* np.std(ch) ** 2 (population variance), in percent squared
VarPct(ch) ==
  Rat(Len(ch) * SumSq(ch) - SumSeq(ch) * SumSeq(ch),
      Len(ch) * Len(ch) * PctScale * PctScale)

(***************************************************************************)
(* analyze_sectors (lines 814-877).                                        *)
(***************************************************************************)
\* lines 638-687: the keys of self.sectors
Taxonomy == {"TECH", "BANKING", "PHARMA", "AUTO", "ENERGY", "FMCG"}

\* SectorKeys that drops a tag outside the taxonomy
RECURSIVE SectorKeysTaxonomy(_, _)
SectorKeysTaxonomy(sd, seen) ==
  IF sd = <<>> THEN seen
  ELSE IF \/ \E i \in 1..Len(seen) : seen[i] = Head(sd).sector
          \/ Head(sd).sector \notin Taxonomy
       THEN SectorKeysTaxonomy(Tail(sd), seen)
       ELSE SectorKeysTaxonomy(Tail(sd), Append(seen, Head(sd).sector))

\* lines 816-822: the keys of sector_groups, in insertion order
RECURSIVE SectorKeys(_, _)
SectorKeys(sd, seen) ==
  IF sd = <<>> THEN seen
  ELSE IF \E i \in 1..Len(seen) : seen[i] = Head(sd).sector
       THEN SectorKeys(Tail(sd), seen)
       ELSE SectorKeys(Tail(sd), Append(seen, Head(sd).sector))

\* lines 816-822: sector_groups[sector]
SectorGroup(sd, sec) == SelectSeq(sd, LAMBDA s : s.sector = sec)

\* TrendDirection by simple majority (the factor 1.5 dropped)
TrendDirectionMajority(positive_count, negative_count) ==
  IF positive_count > negative_count THEN "UPTREND"
  ELSE IF negative_count > positive_count THEN "DOWNTREND"
  ELSE "SIDEWAYS"

\* lines 839-847
TrendDirection(positive_count, negative_count) ==
  IF positive_count * 10 > negative_count * 15 THEN "UPTREND"
  ELSE IF negative_count * 10 > positive_count * 15 THEN "DOWNTREND"
  ELSE "SIDEWAYS"

\* line 850: sorted(stocks, key=price_change_pct, reverse=True); the sort is
\* stable, so members with equal keys keep their input order
RECURSIVE InsertDesc(_, _)
InsertDesc(sorted, x) ==
  IF sorted = <<>> THEN <<x>>
  ELSE IF Head(sorted).price_change_pct >= x.price_change_pct
       THEN <<Head(sorted)>> \o InsertDesc(Tail(sorted), x)
       ELSE <<x>> \o sorted

RECURSIVE SortInto(_, _)
SortInto(sorted, rest) ==
  IF rest = <<>> THEN sorted
  ELSE SortInto(InsertDesc(sorted, Head(rest)), Tail(rest))

SortedStocks(stocks) == SortInto(<<>>, stocks)

\* line 851: sorted_stocks[:3]
TopPerformers(sorted_stocks) ==
  SymbolOf(SubSeq(sorted_stocks, 1,
                  IF Len(sorted_stocks) < 3 THEN Len(sorted_stocks) ELSE 3))

\* BottomPerformers taking the last four: sorted_stocks[-4:]
BottomPerformersLastFour(sorted_stocks) ==
  SymbolOf(SubSeq(sorted_stocks,
                  IF Len(sorted_stocks) < 4 THEN 1 ELSE Len(sorted_stocks) - 3,
                  Len(sorted_stocks)))

\* line 852: sorted_stocks[-3:]
BottomPerformers(sorted_stocks) ==
  SymbolOf(SubSeq(sorted_stocks,
                  IF Len(sorted_stocks) < 3 THEN 1 ELSE Len(sorted_stocks) - 2,
                  Len(sorted_stocks)))

\* lines 855-860
SectorStrength(avg_price_change) ==
  IF RatGt(avg_price_change, Rat(2, 1)) THEN "STRONG"
  ELSE IF RatGt(avg_price_change, Rat(0, 1)) THEN "MODERATE"
  ELSE "WEAK"

\* SectorAnalysis whose strength label follows the trend label: a sector
\* in UPTREND is never WEAK
SectorAnalysisTrendBound(sec, stocks) ==
  LET price_changes == PctOf(stocks)
      sorted_stocks == SortedStocks(stocks)
      trend == TrendDirection(PositiveCount(price_changes),
                              NegativeCount(price_changes))
      strength == SectorStrength(MeanPct(price_changes))
  IN [sector |-> sec,
      stock_count |-> Len(stocks),
      avg_price_change |-> MeanPct(price_changes),
      avg_volume_change |-> 0,
      sector_volatility_sq |-> VarPct(price_changes),
      trend_direction |-> trend,
      top_performers |-> TopPerformers(sorted_stocks),
      bottom_performers |-> BottomPerformers(sorted_stocks),
      sector_strength |-> IF trend = "UPTREND" /\ strength = "WEAK"
                          THEN "MODERATE" ELSE strength]

\* lines 830-872: the SectorAnalysis of one group
SectorAnalysis(sec, stocks) ==
  LET price_changes == PctOf(stocks)
      sorted_stocks == SortedStocks(stocks)
  IN [sector |-> sec,
      stock_count |-> Len(stocks),
      avg_price_change |-> MeanPct(price_changes),
      avg_volume_change |-> 0,
      sector_volatility_sq |-> VarPct(price_changes),
      trend_direction |-> TrendDirection(PositiveCount(price_changes),
                                         NegativeCount(price_changes)),
      top_performers |-> TopPerformers(sorted_stocks),
      bottom_performers |-> BottomPerformers(sorted_stocks),
      sector_strength |-> SectorStrength(MeanPct(price_changes))]

\* lines 826-828: groups that are empty are skipped
NonEmptyKeys(sd) ==
  SelectSeq(SectorKeys(sd, <<>>), LAMBDA sec : SectorGroup(sd, sec) # <<>>)

analyze_sectors(sd) ==
  LET keys == NonEmptyKeys(sd)
  IN [i \in 1..Len(keys) |-> SectorAnalysis(keys[i], SectorGroup(sd, keys[i]))]

(***************************************************************************)
(* assess_market_overview (lines 879-930).  market_volatility is           *)
(* np.std(price_changes) / 100; the model keeps its square.                *)
(***************************************************************************)
\* lines 881-891: the summary returned for an empty list
EmptyMarketOverview ==
  [market_sentiment |-> "NEUTRAL",
   market_volatility_sq |-> Rat(0, 1),
   advancing_stocks |-> 0,
   declining_stocks |-> 0,
   total_volume |-> 0,
   market_breadth |-> Rat(1, 1),
   fear_greed_index |-> "NEUTRAL"]

\* MarketBreadth falling back to advancing / 1
MarketBreadthOverOne(advancing_stocks, declining_stocks) ==
  IF declining_stocks > 0 THEN Rat(advancing_stocks, declining_stocks)
  ELSE Rat(advancing_stocks, 1)

\* line 898
MarketBreadth(advancing_stocks, declining_stocks) ==
  IF declining_stocks > 0 THEN Rat(advancing_stocks, declining_stocks)
  ELSE Rat(2, 1)

\* line 902, squared: (np.std(price_changes) / 100) ** 2
MarketVolatilitySq(ch) == Rat(VarPct(ch).n, VarPct(ch).d * 100 * 100)

\* MarketSentiment with either condition sufficient (or for and)
MarketSentimentEither(avg_change, market_breadth) ==
  IF RatGt(avg_change, Rat(10, 10)) \/ RatGt(market_breadth, Rat(12, 10))
    THEN "BULLISH"
  ELSE IF RatLt(avg_change, Rat(-10, 10)) \/ RatLt(market_breadth, Rat(8, 10))
    THEN "BEARISH"
  ELSE "NEUTRAL"

\* lines 906-911
MarketSentiment(avg_change, market_breadth) ==
  IF RatGt(avg_change, Rat(10, 10)) /\ RatGt(market_breadth, Rat(12, 10))
    THEN "BULLISH"
  ELSE IF RatLt(avg_change, Rat(-10, 10)) /\ RatLt(market_breadth, Rat(8, 10))
    THEN "BEARISH"
  ELSE "NEUTRAL"

\* FearGreedIndex with inclusive thresholds (>= 0.03, <= 0.015)
FearGreedIndexInclusive(market_volatility_sq, avg_change) ==
  IF ~RatLt(market_volatility_sq, Rat(3 * 3, 100 * 100)) THEN "FEAR"
  ELSE IF /\ ~RatGt(market_volatility_sq, Rat(3 * 3, 200 * 200))
          /\ RatGt(avg_change, Rat(5, 10))
    THEN "GREED"
  ELSE "NEUTRAL"

\* lines 914-919; the thresholds 0.03 = 3/100 and 0.015 = 3/200 are squared
\* because the volatility is kept squared (both sides are >= 0)
FearGreedIndex(market_volatility_sq, avg_change) ==
  IF RatGt(market_volatility_sq, Rat(3 * 3, 100 * 100)) THEN "FEAR"
  ELSE IF /\ RatLt(market_volatility_sq, Rat(3 * 3, 200 * 200))
          /\ RatGt(avg_change, Rat(5, 10))
    THEN "GREED"
  ELSE "NEUTRAL"

\* MarketOverviewOf that gives a list without advancing or declining
\* stocks the breadth 1.0 of the empty default
MarketOverviewOfTied(sd) ==
  LET price_changes == PctOf(sd)
      advancing_stocks == PositiveCount(price_changes)
      declining_stocks == NegativeCount(price_changes)
      market_breadth ==
        IF advancing_stocks = 0 /\ declining_stocks = 0 THEN Rat(1, 1)
        ELSE MarketBreadth(advancing_stocks, declining_stocks)
      avg_change == MeanPct(price_changes)
  IN [market_sentiment |-> MarketSentiment(avg_change, market_breadth),
      market_volatility_sq |-> MarketVolatilitySq(price_changes),
      advancing_stocks |-> advancing_stocks,
      declining_stocks |-> declining_stocks,
      total_volume |-> SumSeq(VolumeOf(sd)),
      market_breadth |-> market_breadth,
      fear_greed_index |-> FearGreedIndex(MarketVolatilitySq(price_changes),
                                          avg_change)]

\* lines 893-930: the summary of a non-empty list
MarketOverviewOf(sd) ==
  LET price_changes == PctOf(sd)
      advancing_stocks == PositiveCount(price_changes)
      declining_stocks == NegativeCount(price_changes)
      market_breadth == MarketBreadth(advancing_stocks, declining_stocks)
      avg_change == MeanPct(price_changes)
  IN [market_sentiment |-> MarketSentiment(avg_change, market_breadth),
      market_volatility_sq |-> MarketVolatilitySq(price_changes),
      advancing_stocks |-> advancing_stocks,
      declining_stocks |-> declining_stocks,
      total_volume |-> SumSeq(VolumeOf(sd)),
      market_breadth |-> market_breadth,
      fear_greed_index |-> FearGreedIndex(MarketVolatilitySq(price_changes),
                                          avg_change)]

\* assess_market_overview without the early return for an empty list
assess_market_overview_unguarded(sd) == MarketOverviewOf(sd)

assess_market_overview(sd) ==
  IF sd = <<>> THEN EmptyMarketOverview ELSE MarketOverviewOf(sd)

(***************************************************************************)
(* The aggregators applied to one snapshot list, drawn in InitAgg, in the  *)
(* order of run_comprehensive_data_collection (lines 945-951): sectors     *)
(* first, then the market, both on the same list.                          *)
(*                                                                         *)
(* Snapshot i of a list carries the symbol i (symbols are distinct) and    *)
(* the i-th sector of the family's pool.  Two families of lists are drawn: *)
(* long lists over a small set of changes, all but one snapshot in one     *)
(* sector (sector sizes 1 .. MaxSectorInput - 1), and short lists over a   *)
(* set of changes that reaches every threshold of the market assessor,     *)
(* with three interleaved sectors.                                         *)
(***************************************************************************)
SectorPool(i) == IF i = 2 THEN "UNKNOWN" ELSE "TECH"

MarketPool(i) ==
  IF i % 3 = 1 THEN "BANKING" ELSE IF i % 3 = 2 THEN "TECH" ELSE "PHARMA"

SectorPctDomain == {-6, 0, 1, 5}
MarketPctDomain == {-6, -1, 0, 1, 5, 6, 7}

SectorInputs ==
  {[i \in 1..Len(ch) |-> StockData(i, SectorPool(i), ch[i], 100 * i)] :
     ch \in SeqsUpTo(SectorPctDomain, MaxSectorInput)}

MarketInputs ==
  {[i \in 1..Len(ch) |-> StockData(i, MarketPool(i), ch[i], 100 * i)] :
     ch \in SeqsUpTo(MarketPctDomain, MaxMarketInput)}

InitAgg ==
  /\ pc = "sectors"
  /\ stock_data \in SectorInputs \cup MarketInputs
  /\ sector_analyses = <<>>
  /\ market_overview = None
  /\ prices = <<>>
  /\ rsi = 50
  /\ macd = 0
  /\ signals = <<>>
  /\ signal_strength = None
  /\ IdleInd
  /\ IdleRun

\* a finished step of the run and the snapshot list it was handed
Step(name, list) == [step |-> name, read |-> list]

AnalyzeSectors ==
  /\ pc = "sectors"
  /\ sector_analyses' = analyze_sectors(stock_data)
  /\ pc' = "market"
  /\ trace' = Append(trace, Step("analyze_sectors", stock_data))
  /\ UNCHANGED <<stock_data, market_overview>>
  /\ UNCHANGED signalVars
  /\ UNCHANGED indVars
  /\ UNCHANGED loopVars

AssessMarketOverview ==
  /\ pc = "market"
  /\ market_overview' = assess_market_overview(stock_data)
  /\ pc' = "assessed"
  /\ trace' = Append(trace, Step("assess_market_overview", stock_data))
  /\ UNCHANGED <<stock_data, sector_analyses>>
  /\ UNCHANGED signalVars
  /\ UNCHANGED indVars
  /\ UNCHANGED loopVars

NextAgg == AnalyzeSectors \/ AssessMarketOverview

SpecAgg == InitAgg /\ [][NextAgg]_vars

(***************************************************************************)
(* Indicator functions (lines 1058-1134).  Values are quotients in lowest  *)
(* terms, so equal values are equal records.  np.log, np.std and np.sqrt   *)
(* are not evaluated: a value built from them is kept as the record of     *)
(* their arguments.                                                        *)
(***************************************************************************)
Abs(a) == IF a < 0 THEN -a ELSE a

RECURSIVE Gcd(_, _)
Gcd(a, b) == IF b = 0 THEN a ELSE Gcd(b, a % b)

\* the quotient n / d, d > 0, in lowest terms
Norm(n, d) == Rat(n \div Gcd(Abs(n), d), d \div Gcd(Abs(n), d))

RatAdd(x, y) == Norm(x.n * y.d + y.n * x.d, x.d * y.d)
RatSub(x, y) == Norm(x.n * y.d - y.n * x.d, x.d * y.d)
RatMul(x, y) == Norm(x.n * y.n, x.d * y.d)
\* x / y for y > 0
RatDiv(x, y) == Norm(x.n * y.d, x.d * y.n)

\* Python slice s[-n:] for 1 <= n <= len(s)
LastN(s, n) == SubSeq(s, Len(s) - n + 1, Len(s))

\* np.diff(prices)
Deltas(p) == [i \in 1..(Len(p) - 1) |-> p[i + 1] - p[i]]
\* np.where(deltas > 0, deltas, 0) and np.where(deltas < 0, -deltas, 0)
Gains(deltas) ==
  [i \in 1..Len(deltas) |-> IF deltas[i] > 0 THEN deltas[i] ELSE 0]
Losses(deltas) ==
  [i \in 1..Len(deltas) |-> IF deltas[i] < 0 THEN -deltas[i] ELSE 0]

\* s[lo] + ... + s[hi], halving the range (a frame holds 200 closes)
RECURSIVE SumRange(_, _, _)
SumRange(s, lo, hi) ==
  IF lo > hi THEN 0
  ELSE IF lo = hi THEN s[lo]
  ELSE SumRange(s, lo, (lo + hi) \div 2)
       + SumRange(s, ((lo + hi) \div 2) + 1, hi)

\* np.mean of a non-empty sequence of integers
Mean(s) == Norm(SumRange(s, 1, Len(s)), Len(s))

\* RsiOf without the subtraction from 100
RsiOfComplement(avg_gain, avg_loss) ==
  IF avg_loss.n = 0 THEN Rat(100, 1)
  ELSE RatDiv(Rat(100, 1), RatAdd(Rat(1, 1), RatDiv(avg_gain, avg_loss)))

\* RsiOf that tests for a zero average gain first and calls it neutral
RsiOfGainFirst(avg_gain, avg_loss) ==
  IF avg_gain.n = 0 THEN Rat(50, 1)
  ELSE IF avg_loss.n = 0 THEN Rat(100, 1)
  ELSE RatSub(Rat(100, 1),
              RatDiv(Rat(100, 1),
                     RatAdd(Rat(1, 1), RatDiv(avg_gain, avg_loss))))

\* lines 1071-1076
RsiOf(avg_gain, avg_loss) ==
  IF avg_loss.n = 0 THEN Rat(100, 1)
  ELSE RatSub(Rat(100, 1),
              RatDiv(Rat(100, 1),
                     RatAdd(Rat(1, 1), RatDiv(avg_gain, avg_loss))))

\* _calculate_rsi that averages over every delta of the series
calculate_rsi_all_deltas(p, n) ==
  IF Len(p) < n + 1 THEN Rat(50, 1)
  ELSE RsiOf(Mean(Gains(Deltas(p))), Mean(Losses(Deltas(p))))

\* _calculate_rsi (lines 1059-1076)
calculate_rsi(p, n) ==
  IF Len(p) < n + 1 THEN Rat(50, 1)
  ELSE RsiOf(Mean(LastN(Gains(Deltas(p)), n)),
             Mean(LastN(Losses(Deltas(p)), n)))

\* np.diff(np.log(prices)): the i-th return is log(p[i+1]) - log(p[i])
LogReturns(p) ==
  [i \in 1..(Len(p) - 1) |-> [log_of |-> p[i + 1], minus_log_of |-> p[i]]]

\* np.std(returns) * np.sqrt(252)
Annualized(returns) == [std_of |-> returns, times_sqrt_of |-> 252]

\* _calculate_volatility that takes the oldest `window` returns
calculate_volatility_oldest(p, window) ==
  IF Len(p) < 2 THEN Rat(0, 1)
  ELSE IF Len(LogReturns(p)) < window THEN Annualized(LogReturns(p))
  ELSE Annualized(SubSeq(LogReturns(p), 1, window))

\* _calculate_volatility (lines 1078-1089)
calculate_volatility(p, window) ==
  IF Len(p) < 2 THEN Rat(0, 1)
  ELSE IF Len(LogReturns(p)) < window THEN Annualized(LogReturns(p))
  ELSE Annualized(LastN(LogReturns(p), window))

\* the exception of prices[-1] on an empty array, and np.mean([])
IndexError == "IndexError"
NaN == "nan"

\* np.std(w) ** 2 of a non-empty sequence of integers
Variance(w) == Norm(Len(w) * SumSq(w) - SumSeq(w) * SumSeq(w), Len(w) * Len(w))

\* sma + std_dev * std, with std kept as the square root of a variance
Band(sma, std_dev, variance) ==
  [base |-> sma, times |-> std_dev, sqrt_of |-> variance]

\* the outcome of a call: an exception, or a returned value
Raise(e) == [raised |-> e, value |-> None]
Return(v) == [raised |-> None, value |-> v]

\* _calculate_bollinger_bands (lines 1099-1110), std_dev = 2.0; prices[-1]
\* of an empty array raises IndexError
calculate_bollinger_bands(p, n) ==
  IF Len(p) < n
  THEN IF p = <<>> THEN Raise(IndexError)
       ELSE Return([upper |-> Rat(FromEnd(p, 1), 1),
                    lower |-> Rat(FromEnd(p, 1), 1)])
  ELSE Return([upper |-> Band(Mean(LastN(p, n)), 2, Variance(LastN(p, n))),
               lower |-> Band(Mean(LastN(p, n)), -2, Variance(LastN(p, n)))])

\* lines 1131-1132: the loop over prices[1:]
RECURSIVE EmaFold(_, _, _)
EmaFold(ema, rest, multiplier) ==
  IF rest = <<>> THEN ema
  ELSE EmaFold(RatAdd(RatMul(Rat(Head(rest), 1), multiplier),
                      RatMul(ema, RatSub(Rat(1, 1), multiplier))),
               Tail(rest), multiplier)

\* _calculate_ema seeded at the first of the last n prices
calculate_ema_tail(p, n) ==
  IF Len(p) < n
  THEN IF p = <<>> THEN NaN ELSE Mean(p)
  ELSE EmaFold(Rat(Head(LastN(p, n)), 1), Tail(LastN(p, n)), Norm(2, n + 1))

\* _calculate_ema (lines 1123-1134)
calculate_ema(p, n) ==
  IF Len(p) < n
  THEN IF p = <<>> THEN NaN ELSE Mean(p)
  ELSE EmaFold(Rat(Head(p), 1), Tail(p), Norm(2, n + 1))

\* _calculate_macd (lines 1112-1121)
calculate_macd(p, f, s) ==
  IF Len(p) < s THEN Rat(0, 1)
  ELSE RatSub(calculate_ema(p, f), calculate_ema(p, s))

(***************************************************************************)
(* One indicator function applied to one input, drawn in InitInd: a price  *)
(* series of up to MaxSeries closes, the empty series included, and        *)
(* arguments of at least 1 with fast <= slow (the program calls with       *)
(* period 14, window 30, fast 12, slow 26).                                *)
(***************************************************************************)
InitInd ==
  /\ pc = "indicators"
  /\ prices \in SeqsUpTo(PriceDomain, MaxSeries)
  /\ period \in 1..MaxPeriod
  /\ slow \in 1..MaxPeriod
  /\ fast \in 1..slow
  /\ result = None
  /\ raised = None
  /\ rsi = 50
  /\ macd = 0
  /\ signals = <<>>
  /\ signal_strength = None
  /\ IdleAgg
  /\ IdleRun

\* a call changes nothing but the position and the returned value
IndFrame ==
  /\ UNCHANGED <<period, fast, slow>>
  /\ UNCHANGED signalVars
  /\ UNCHANGED aggVars
  /\ UNCHANGED runVars

CalculateRsi ==
  /\ pc = "indicators"
  /\ result' = calculate_rsi(prices, period)
  /\ raised' = None
  /\ pc' = "rsi"
  /\ IndFrame

CalculateVolatility ==
  /\ pc = "indicators"
  /\ result' = calculate_volatility(prices, period)
  /\ raised' = None
  /\ pc' = "volatility"
  /\ IndFrame

CalculateMomentum ==
  /\ pc = "indicators"
  /\ result' = calculate_momentum(prices, period)
  /\ raised' = None
  /\ pc' = "momentum"
  /\ IndFrame

CalculateBollingerBands ==
  /\ pc = "indicators"
  /\ result' = calculate_bollinger_bands(prices, period).value
  /\ raised' = calculate_bollinger_bands(prices, period).raised
  /\ pc' = "bollinger"
  /\ IndFrame

CalculateMacd ==
  /\ pc = "indicators"
  /\ result' = calculate_macd(prices, fast, slow)
  /\ raised' = None
  /\ pc' = "macd"
  /\ IndFrame

CalculateEma ==
  /\ pc = "indicators"
  /\ result' = calculate_ema(prices, period)
  /\ raised' = None
  /\ pc' = "ema"
  /\ IndFrame

NextInd ==
  \/ CalculateRsi
  \/ CalculateVolatility
  \/ CalculateMomentum
  \/ CalculateBollingerBands
  \/ CalculateMacd
  \/ CalculateEma

SpecInd == InitInd /\ [][NextInd]_vars

(***************************************************************************)
(* The registry (lines 638-698), scaled: symbol i stands for the i-th      *)
(* entry of self.all_stocks, and each sector lists StocksPerSector         *)
(* symbols, in the order of self.sectors.                                  *)
(***************************************************************************)
SectorNames == <<"TECH", "BANKING", "PHARMA", "AUTO", "ENERGY", "FMCG">>

\* lines 690-698
all_stocks == [i \in 1..UniverseSize |-> i]

\* stock_sectors that files an identifier it does not know under TECH
stock_sectors_listed(sym) ==
  IF sym \in 1..UniverseSize
  THEN SectorNames[(((sym - 1) \div StocksPerSector) % Len(SectorNames)) + 1]
  ELSE "TECH"

\* self.stock_sectors.get(symbol, 'UNKNOWN')
stock_sectors(sym) ==
  IF sym \in 1..UniverseSize
  THEN SectorNames[(((sym - 1) \div StocksPerSector) % Len(SectorNames)) + 1]
  ELSE "UNKNOWN"

\* Identifiers outside the registry are the symbols UniverseSize + j, spelled
\* Unlisted[j]: a spelling is the text of the identifier cut into pieces,
\* each occurrence of ".NS" being one piece.
Unlisted == <<<<"ZOMATO", ".NS">>, <<"AAPL">>, <<".NS", "B", ".NS">>>>

Identifier(sym) == Unlisted[sym - UniverseSize]

\* symbol.replace('.NS', ''): every occurrence is removed
ReplaceNS(text) == SelectSeq(text, LAMBDA piece : piece # ".NS")

\* self.stock_names.get(symbol, symbol.replace('.NS', '')): the name the
\* registry lists, or the text derived from the identifier
stock_names(sym) ==
  IF sym \in 1..UniverseSize THEN [listed_name_of |-> sym]
  ELSE [text |-> ReplaceNS(Identifier(sym))]

(***************************************************************************)
(* collect_stock_data (lines 704-756), one iteration of its loop.  The     *)
(* answer of the data source is an input: stock.history(period="5d")       *)
(* raises or returns a frame of closes, and stock.info raises or returns a *)
(* mapping whose marketCap may be None.  An optional value is a sequence   *)
(* of at most one element.                                                 *)
(***************************************************************************)
FetchError == "Exception"

\* a call that was not made
NotCalled == [raised |-> None, value |-> None]

Some(v) == <<v>>
Nothing == <<>>

\* the closes of a "5d" frame: no row, one row, three rows
ShortHistories == {<<>>, <<100>>, <<97, 100, 103>>}

\* stock.info: raises, or returns marketCap (a number or None) and forwardPE
Infos ==
  {Raise(FetchError),
   Return([marketCap |-> Some(1000), forwardPE |-> Some(20)]),
   Return([marketCap |-> Nothing, forwardPE |-> Some(20)])}

\* stock.info is read only when the frame has at least two rows
ShortFetches ==
  {[history |-> Raise(FetchError), info |-> NotCalled]}
  \cup {[history |-> Return(h), info |-> NotCalled] :
          h \in {c \in ShortHistories : Len(c) < 2}}
  \cup {[history |-> Return(h), info |-> i] :
          h \in {c \in ShortHistories : Len(c) >= 2}, i \in Infos}

\* lines 725-731: market_cap and pe_ratio as handed to StockData; the bare
\* except turns a raising stock.info into 0 and 0
InfoFields(info) ==
  IF info.raised # None THEN [market_cap |-> Some(0), pe_ratio |-> Some(0)]
  ELSE [market_cap |-> info.value.marketCap, pe_ratio |-> info.value.forwardPE]

\* SnapshotRaises that also fails when stock.info raised
SnapshotRaisesOnLookupFailure(info) ==
  info.raised # None \/ InfoFields(info).market_cap = Nothing

\* line 741: float(market_cap) raises TypeError on None
SnapshotRaises(info) == InfoFields(info).market_cap = Nothing

\* lines 715-747: the StockData built from a frame of at least 2 rows;
\* price_change_pct in 1/PctScale percent
CollectedStockData(sym, closes, info) ==
  [symbol |-> sym,
   company_name |-> stock_names(sym),
   sector |-> stock_sectors(sym),
   current_price |-> FromEnd(closes, 1),
   price_change_pct |->
     ((FromEnd(closes, 1) - FromEnd(closes, 2)) * 100 * PctScale)
       \div FromEnd(closes, 2),
   volume |-> 100 * sym,
   market_cap |-> Head(InfoFields(info).market_cap),
   pe_ratio |-> IF InfoFields(info).pe_ratio = Nothing THEN 0
                ELSE Head(InfoFields(info).pe_ratio)]

\* collect_symbol that loses what was collected when an iteration fails
collect_symbol_aborting(sd, sym, f) ==
  IF f.history.raised # None THEN <<>>
  ELSE IF Len(f.history.value) >= 2
       THEN IF SnapshotRaises(f.info) THEN <<>>
            ELSE Append(sd, CollectedStockData(sym, f.history.value, f.info))
       ELSE <<>>

\* lines 710-753: the list after one iteration; an exception inside the try
\* is logged and the loop continues
collect_symbol(sd, sym, f) ==
  IF f.history.raised # None THEN sd
  ELSE IF Len(f.history.value) >= 2
       THEN IF SnapshotRaises(f.info) THEN sd
            ELSE Append(sd, CollectedStockData(sym, f.history.value, f.info))
       ELSE sd

(***************************************************************************)
(* calculate_technical_indicators (lines 758-812), one iteration of its    *)
(* loop.  stock.history(period="1y") raises or returns a frame; the frame  *)
(* of `rows` rows is YearCloses(rows): its last 20 closes are 103, the 30  *)
(* before them 100 and the older ones 97, so the means over the last 20,   *)
(* the last 50 and the last 200 closes all differ.  TechnicalIndicators is *)
(* reduced to symbol and the three moving averages.                        *)
(***************************************************************************)
MinHistory == 50      \* line 769
Sma20Window == 20     \* line 777
Sma50Window == 50     \* line 778
Sma200Window == 200   \* line 779

YearCloses(rows) ==
  [k \in 1..rows |->
     IF k > rows - Sma20Window THEN 103
     ELSE IF k > rows - Sma50Window THEN 100 ELSE 97]

\* the lengths of the "1y" frames: each side of both length tests
HistoryLengths == {MinHistory - 1, MinHistory, Sma200Window - 1, Sma200Window}

LongFetches ==
  {[raised |-> FetchError, rows |-> 0]}
  \cup {[raised |-> None, rows |-> r] : r \in HistoryLengths}

\* Python slice s[-n:] for any n >= 1: the whole of a shorter s
SliceLast(s, n) == IF Len(s) <= n THEN s ELSE LastN(s, n)

\* line 777
Sma20(p) == Mean(SliceLast(p, Sma20Window))
\* line 778
Sma50(p) ==
  IF Len(p) >= Sma50Window THEN Mean(SliceLast(p, Sma50Window)) ELSE Sma20(p)

\* Sma200 without its fallback: the mean of prices[-200:] whatever the length
Sma200NoFallback(p) == Mean(SliceLast(p, Sma200Window))

\* line 779
Sma200(p) ==
  IF Len(p) >= Sma200Window THEN Mean(SliceLast(p, Sma200Window))
  ELSE Sma50(p)

TechnicalIndicators(sym, p) ==
  [symbol |-> sym, sma_20 |-> Sma20(p), sma_50 |-> Sma50(p),
   sma_200 |-> Sma200(p)]

\* lines 764-808: the list after one iteration
technical_symbol(ti, sym, f) ==
  IF f.raised # None THEN ti
  ELSE IF f.rows < MinHistory THEN ti
  ELSE Append(ti, TechnicalIndicators(sym, YearCloses(f.rows)))

(***************************************************************************)
(* run_comprehensive_data_collection (lines 932-972): the two loops over   *)
(* self.all_stocks, the two aggregators, the report and the export.  The   *)
(* report and the export write files: each returns or raises, and an       *)
(* exception is logged and raised again to the caller (lines 970-972).     *)
(***************************************************************************)
InitRun ==
  /\ pc = "collect"
  /\ symbols = all_stocks
  /\ cursor = 0
  /\ stock_data = <<>>
  /\ technical_indicators = <<>>
  /\ short_fetch = <<>>
  /\ long_fetch = <<>>
  /\ trace = <<>>
  /\ sector_analyses = <<>>
  /\ market_overview = None
  /\ result = None
  /\ raised = None
  /\ period = 0
  /\ fast = 0
  /\ slow = 0
  /\ prices = <<>>
  /\ rsi = 50
  /\ macd = 0
  /\ signals = <<>>
  /\ signal_strength = None

\* collect_stock_data called on its own with a list of up to MaxSymbols
\* identifiers, of the registry or not, repeats included
InitCollect ==
  /\ pc = "collect"
  /\ symbols \in SeqsUpTo(1..(UniverseSize + Len(Unlisted)), MaxSymbols)
  /\ cursor = 0
  /\ stock_data = <<>>
  /\ technical_indicators = <<>>
  /\ short_fetch = <<>>
  /\ long_fetch = <<>>
  /\ trace = <<>>
  /\ sector_analyses = <<>>
  /\ market_overview = None
  /\ IdleInd
  /\ prices = <<>>
  /\ rsi = 50
  /\ macd = 0
  /\ signals = <<>>
  /\ signal_strength = None

\* LoopDone that lets a loop return after its first symbol
LoopDoneEarly == cursor >= 1

\* the for loop has no symbol left
LoopDone == cursor >= Len(symbols)

\* the variables no step of the run touches
RunFrame ==
  /\ UNCHANGED signalVars
  /\ UNCHANGED <<period, fast, slow, symbols>>

\* one iteration of the loop of collect_stock_data
CollectSymbol ==
  /\ pc = "collect"
  /\ ~LoopDone
  /\ \E f \in ShortFetches :
       /\ stock_data' = collect_symbol(stock_data, symbols[cursor + 1], f)
       /\ short_fetch' = Append(short_fetch, f)
  /\ cursor' = cursor + 1
  /\ UNCHANGED <<pc, technical_indicators, long_fetch, trace, sector_analyses,
                 market_overview, result, raised>>
  /\ RunFrame

\* line 756: return stock_data
CollectReturn ==
  /\ pc = "collect"
  /\ LoopDone
  /\ pc' = "technical"
  /\ cursor' = 0
  /\ trace' = Append(trace, Step("collect_stock_data", stock_data))
  /\ UNCHANGED <<stock_data, technical_indicators, short_fetch, long_fetch,
                 sector_analyses, market_overview, result, raised>>
  /\ RunFrame

\* one iteration of the loop of calculate_technical_indicators
TechnicalSymbol ==
  /\ pc = "technical"
  /\ ~LoopDone
  /\ \E f \in LongFetches :
       /\ technical_indicators' =
            technical_symbol(technical_indicators, symbols[cursor + 1], f)
       /\ long_fetch' = Append(long_fetch, f)
  /\ cursor' = cursor + 1
  /\ UNCHANGED <<pc, stock_data, short_fetch, trace, sector_analyses,
                 market_overview, result, raised>>
  /\ RunFrame

\* line 812: return technical_indicators
TechnicalReturn ==
  /\ pc = "technical"
  /\ LoopDone
  /\ pc' = "sectors"
  /\ cursor' = 0
  /\ trace' = Append(trace, Step("calculate_technical_indicators", stock_data))
  /\ UNCHANGED <<stock_data, technical_indicators, short_fetch, long_fetch,
                 sector_analyses, market_overview, result, raised>>
  /\ RunFrame

\* lines 954-960: create_comprehensive_data_report returns or raises
CreateReport ==
  /\ pc = "assessed"
  /\ symbols # <<>>
  /\ \/ /\ pc' = "export"
        /\ trace' =
             Append(trace, Step("create_comprehensive_data_report", stock_data))
        /\ UNCHANGED raised
     \/ /\ pc' = "raised"
        /\ raised' = FetchError
        /\ UNCHANGED trace
  /\ UNCHANGED <<stock_data, technical_indicators, short_fetch, long_fetch,
                 cursor, sector_analyses, market_overview, result>>
  /\ RunFrame

\* lines 963-967: _export_data_for_agents returns or raises; then the run
\* returns the two report names
ExportData ==
  /\ pc = "export"
  /\ \/ /\ pc' = "returned"
        /\ trace' = Append(trace, Step("_export_data_for_agents", stock_data))
        /\ result' = "reports"
        /\ UNCHANGED raised
     \/ /\ pc' = "raised"
        /\ raised' = FetchError
        /\ UNCHANGED <<trace, result>>
  /\ UNCHANGED <<stock_data, technical_indicators, short_fetch, long_fetch,
                 cursor, sector_analyses, market_overview>>
  /\ RunFrame

NextRun ==
  \/ CollectSymbol
  \/ CollectReturn
  \/ TechnicalSymbol
  \/ TechnicalReturn
  \/ AnalyzeSectors
  \/ AssessMarketOverview
  \/ CreateReport
  \/ ExportData

SpecRun == InitRun /\ [][NextRun]_vars

NextCollect == CollectSymbol \/ CollectReturn

SpecCollect == InitCollect /\ [][NextCollect]_vars

(***************************************************************************)
(* Properties of the signal classifier (SpecSignal).                       *)
(***************************************************************************)
Classified == pc = "classified"
Total == SumSeq(signals)

\* C1: the summed score maps to the label as total >= 3 STRONG_UP,
\* 1 <= total <= 2 UP, total <= -3 STRONG_DOWN, -2 <= total <= -1 DOWN,
\* total = 0 NEUTRAL; one label is returned for every combination of terms,
\* and the boundary totals 3, 1, -1, -3 take the higher-magnitude label.
C1_LabelOfTotal ==
  Classified =>
    /\ signal_strength \in {"STRONG_UP", "UP", "NEUTRAL", "DOWN", "STRONG_DOWN"}
    /\ (Total >= 3) <=> (signal_strength = "STRONG_UP")
    /\ (Total \in 1..2) <=> (signal_strength = "UP")
    /\ (Total = 0) <=> (signal_strength = "NEUTRAL")
    /\ (Total \in -2..-1) <=> (signal_strength = "DOWN")
    /\ (Total <= -3) <=> (signal_strength = "STRONG_DOWN")

\* C1 witness: a score of exactly 3 (RSI below 20 and a positive MACD with
\* a flat trend) is labelled STRONG_UP.
C1_Witness ==
  /\ Classified
  /\ Len(signals) = 3
  /\ Total = 3
  /\ signal_strength = "STRONG_UP"

\* C2: the RSI term is -2 above 80, -1 in (70, 80], +2 below 20, +1 in
\* [20, 30), 0 in [30, 70]; the MACD term is the sign of MACD; and an input
\* with RSI > 80, MACD > 0 and a trend above +2% scores 0 and is NEUTRAL.
C2_RsiMacdTerms ==
  Classified =>
    /\ signals[1] = (IF rsi > 80 THEN -2
                     ELSE IF rsi > 70 /\ rsi <= 80 THEN -1
                     ELSE IF rsi < 20 THEN 2
                     ELSE IF rsi >= 20 /\ rsi < 30 THEN 1
                     ELSE 0)
    /\ (rsi >= 30 /\ rsi <= 70) => signals[1] = 0
    /\ (macd > 0) => signals[2] = 1
    /\ (macd < 0) => signals[2] = -1
    /\ (macd = 0) => signals[2] = 0
    /\ (rsi > 80 /\ macd > 0 /\ Len(prices) >= 5
          /\ 100 * (prices[Len(prices)] - prices[Len(prices) - 4])
               > 2 * prices[Len(prices) - 4])
         => (Total = 0 /\ signal_strength = "NEUTRAL")

\* C2 witness: RSI 85, MACD positive, a +3% trend: terms -2, +1, +1.
C2_Witness ==
  /\ Classified
  /\ rsi = 85
  /\ macd > 0
  /\ signals = <<-2, 1, 1>>
  /\ signal_strength = "NEUTRAL"

\* C3 as stated: the trend term is the term of Momentum with period 5,
\* (last close / the close five positions before it) - 1.
C3_TrendIsMomentum5 ==
  (Classified /\ Len(prices) >= 6) =>
    /\ Len(signals) = 3
    /\ signals[3] = (IF RatGt(calculate_momentum(prices, 5), Rat(2, 100)) THEN 1
                     ELSE IF RatLt(calculate_momentum(prices, 5), Rat(-2, 100))
                       THEN -1
                     ELSE 0)

\* C3 as amended: the trend term exists exactly when at least 5 prices
\* exist and is computed from (last close / the close four positions before
\* it, the 5th-from-last element) - 1, the offset of Momentum with period
\* 4; it is +1 above +2%, -1 below -2%, else 0.
C3_TrendIsFifthFromLast ==
  Classified =>
    IF Len(prices) >= 5
      THEN LET last == prices[Len(prices)]
               back == prices[Len(prices) - 4]
           IN /\ Len(signals) = 3
              /\ signals[3] = (IF 100 * (last - back) > 2 * back THEN 1
                               ELSE IF 100 * (last - back) < -2 * back THEN -1
                               ELSE 0)
              /\ RatEq(Rat(last - back, back), calculate_momentum(prices, 4))
      ELSE Len(signals) = 2

\* C3 witness: six prices on which the fifth-from-last and the
\* sixth-from-last closes give different terms.
C3_Witness ==
  /\ Classified
  /\ Len(prices) = 6
  /\ signals[3] = 1
  /\ ~RatGt(calculate_momentum(prices, 5), Rat(2, 100))

(***************************************************************************)
(* Properties of the aggregators (SpecAgg).                                *)
(***************************************************************************)
SectorsDone == pc \in {"market", "assessed"}
Assessed == pc = "assessed"

Indices == 1..Len(stock_data)
Changes == [i \in Indices |-> stock_data[i].price_change_pct]
Members(sec) == {i \in Indices : stock_data[i].sector = sec}
UpIn(S) == Cardinality({i \in S : stock_data[i].price_change_pct > 0})
DownIn(S) == Cardinality({i \in S : stock_data[i].price_change_pct < 0})
FlatIn(S) == Cardinality({i \in S : stock_data[i].price_change_pct = 0})
Range(f) == {f[i] : i \in DOMAIN f}
Common(sa) == Range(sa.top_performers) \cap Range(sa.bottom_performers)

\* n * sum(x^2) - sum(x)^2 of the changes: n^2 times their population
\* variance, in (1/PctScale percent)^2
VarTimesN2 == Len(stock_data) * SumSq(Changes) - SumSeq(Changes) * SumSeq(Changes)
\* (3 percent)^2 * n^2 in the same unit: the volatility is 0.03 when
\* VarTimesN2 equals it and 0.015 when 4 * VarTimesN2 equals it
ThreePctSqN2 == 9 * PctScale * PctScale * Len(stock_data) * Len(stock_data)

\* C4 as stated: a sector of N >= 6 members has disjoint top and bottom
\* lists; a sector of N <= 5 members has lists sharing at least 6 - N symbols.
C4_OverlapAtLeastSixMinusN ==
  SectorsDone =>
    \A k \in 1..Len(sector_analyses) :
      LET sa == sector_analyses[k]
      IN /\ sa.stock_count >= 6 => Common(sa) = {}
         /\ sa.stock_count <= 5 => Cardinality(Common(sa)) >= 6 - sa.stock_count

\* C4 as amended: a sector of N >= 6 members has disjoint top and bottom
\* lists; one of 3 <= N <= 5 members has lists sharing exactly 6 - N
\* symbols; one of N <= 2 members has both lists equal to the whole sector
\* (N common symbols).
C4_OverlapExact ==
  SectorsDone =>
    \A k \in 1..Len(sector_analyses) :
      LET sa == sector_analyses[k]
          N == Cardinality(Members(sa.sector))
      IN /\ sa.stock_count = N
         /\ N >= 6 => Common(sa) = {}
         /\ (N >= 3 /\ N <= 5) => Cardinality(Common(sa)) = 6 - N
         /\ N <= 2 => /\ Cardinality(Common(sa)) = N
                      /\ sa.top_performers = sa.bottom_performers
         /\ Cardinality(Range(sa.top_performers)) = (IF N < 3 THEN N ELSE 3)
         /\ Cardinality(Range(sa.bottom_performers)) = (IF N < 3 THEN N ELSE 3)

\* C4 witness: one run with a sector of six members (disjoint lists) and a
\* sector of one member (one common symbol, fewer than 6 - 1).
C4_Witness ==
  /\ SectorsDone
  /\ \E k \in 1..Len(sector_analyses) :
       /\ sector_analyses[k].stock_count = 6
       /\ Common(sector_analyses[k]) = {}
  /\ \E k \in 1..Len(sector_analyses) :
       /\ sector_analyses[k].stock_count = 1
       /\ Cardinality(Common(sector_analyses[k])) = 1

\* C5: the sentiment is BULLISH exactly when mean(%change) > 1.0 and
\* breadth > 1.2, BEARISH exactly when mean(%change) < -1.0 and breadth <
\* 0.8, and NEUTRAL otherwise; with advancing = declining > 0 the breadth is
\* 1.0 and the sentiment NEUTRAL whatever the mean.
C5_Sentiment ==
  (Assessed /\ stock_data # <<>>) =>
    LET n == Len(stock_data)
        sum == SumSeq(Changes)
        b == market_overview.market_breadth
        bull == sum > 1 * PctScale * n /\ 10 * b.n > 12 * b.d
        bear == sum < -1 * PctScale * n /\ 10 * b.n < 8 * b.d
    IN /\ b.d > 0
       /\ bull <=> market_overview.market_sentiment = "BULLISH"
       /\ bear <=> market_overview.market_sentiment = "BEARISH"
       /\ (~bull /\ ~bear) <=> market_overview.market_sentiment = "NEUTRAL"
       /\ (UpIn(Indices) = DownIn(Indices) /\ UpIn(Indices) > 0)
            => /\ b.n = b.d
               /\ market_overview.market_sentiment = "NEUTRAL"

\* C5 witness: advancing = declining > 0 with a mean above 1.0: NEUTRAL.
C5_Witness ==
  /\ Assessed
  /\ UpIn(Indices) = DownIn(Indices)
  /\ UpIn(Indices) > 0
  /\ SumSeq(Changes) > PctScale * Len(stock_data)
  /\ market_overview.market_sentiment = "NEUTRAL"

\* C6: for a non-empty run the breadth is advancing / declining when
\* declining > 0, and the constant 2.0 when declining = 0 and advancing > 0,
\* whatever the advancing count.
C6_Breadth ==
  (Assessed /\ stock_data # <<>>) =>
    LET b == market_overview.market_breadth
    IN /\ b.d > 0
       /\ DownIn(Indices) > 0 => b.n * DownIn(Indices) = UpIn(Indices) * b.d
       /\ (DownIn(Indices) = 0 /\ UpIn(Indices) > 0) => b.n = 2 * b.d

\* C6 witness: three advancing, none declining, breadth 2.0 (not 3.0).
C6_Witness ==
  /\ Assessed
  /\ UpIn(Indices) = 3
  /\ DownIn(Indices) = 0
  /\ market_overview.market_breadth = Rat(2, 1)

\* C7: the fear/greed label is FEAR if the market volatility is > 0.03,
\* otherwise GREED if the volatility is < 0.015 and mean(%change) > 0.5,
\* otherwise NEUTRAL; the thresholds are strict.
C7_FearGreed ==
  (Assessed /\ stock_data # <<>>) =>
    LET n == Len(stock_data)
        sum == SumSeq(Changes)
        fear == VarTimesN2 > ThreePctSqN2
        greed == 4 * VarTimesN2 < ThreePctSqN2 /\ 10 * sum > 5 * PctScale * n
        label == market_overview.fear_greed_index
    IN /\ label = (IF fear THEN "FEAR" ELSE IF greed THEN "GREED" ELSE "NEUTRAL")
       /\ VarTimesN2 = ThreePctSqN2 => label = "NEUTRAL"
       /\ 4 * VarTimesN2 = ThreePctSqN2 => label = "NEUTRAL"
       /\ (10 * sum = 5 * PctScale * n /\ ~fear) => label = "NEUTRAL"
       /\ LET v == market_overview.market_volatility_sq
              q == v.d \div (100 * 100)
          IN /\ v.d = q * 100 * 100
             /\ q > 0
             /\ v.n * n * n * PctScale * PctScale = VarTimesN2 * q

\* C7 witness: volatility exactly 0.015 with a mean above 0.5: NEUTRAL.
C7_Witness ==
  /\ Assessed
  /\ stock_data # <<>>
  /\ 4 * VarTimesN2 = ThreePctSqN2
  /\ 10 * SumSeq(Changes) > 5 * PctScale * Len(stock_data)
  /\ market_overview.fear_greed_index = "NEUTRAL"

\* C8: with zero snapshots analyze_sectors returns an empty list and
\* assess_market_overview returns the fixed neutral summary (NEUTRAL,
\* volatility 0.0, advancing 0, declining 0, volume 0, breadth 1.0, NEUTRAL);
\* neither call fails: each step is taken from the empty list.
C8_EmptyRun ==
  stock_data = <<>> =>
    /\ pc = "sectors" => ENABLED AnalyzeSectors
    /\ pc = "market" => ENABLED AssessMarketOverview
    /\ SectorsDone => sector_analyses = <<>>
    /\ Assessed =>
         market_overview =
           [market_sentiment |-> "NEUTRAL",
            market_volatility_sq |-> [n |-> 0, d |-> 1],
            advancing_stocks |-> 0,
            declining_stocks |-> 0,
            total_volume |-> 0,
            market_breadth |-> [n |-> 1, d |-> 1],
            fear_greed_index |-> "NEUTRAL"]

\* C8 witness: the empty run, assessed.
C8_Witness ==
  /\ Assessed
  /\ stock_data = <<>>
  /\ sector_analyses = <<>>
  /\ market_overview.market_breadth = Rat(1, 1)

\* C9: advancing + declining <= number of snapshots, with equality exactly
\* when no snapshot has a change of exactly 0; a zero-change snapshot is
\* counted in neither.
C9_AdvancingDeclining ==
  Assessed =>
    LET a == market_overview.advancing_stocks
        d == market_overview.declining_stocks
    IN /\ a = UpIn(Indices)
       /\ d = DownIn(Indices)
       /\ a + d <= Len(stock_data)
       /\ (a + d = Len(stock_data)) <=> (FlatIn(Indices) = 0)
       /\ a + d + FlatIn(Indices) = Len(stock_data)

\* C9 witness: a run with an advancing, a declining and a zero-change
\* snapshot.
C9_Witness ==
  /\ Assessed
  /\ market_overview.advancing_stocks > 0
  /\ market_overview.declining_stocks > 0
  /\ FlatIn(Indices) > 0
  /\ market_overview.advancing_stocks + market_overview.declining_stocks
       < Len(stock_data)

\* C10: a sector is UPTREND if count(change > 0) > 1.5 * count(change < 0),
\* DOWNTREND if count(change < 0) > 1.5 * count(change > 0), SIDEWAYS
\* otherwise; zero-change members count toward neither side.
C10_Trend ==
  SectorsDone =>
    \A k \in 1..Len(sector_analyses) :
      LET sa == sector_analyses[k]
          up == UpIn(Members(sa.sector))
          down == DownIn(Members(sa.sector))
      IN /\ sa.trend_direction =
              (IF 2 * up > 3 * down THEN "UPTREND"
               ELSE IF 2 * down > 3 * up THEN "DOWNTREND"
               ELSE "SIDEWAYS")
         /\ (up = 0 /\ down = 0) => sa.trend_direction = "SIDEWAYS"

\* C10 witness: a sector of three gainers, two losers and a zero-change
\* member: 3 is not more than 1.5 * 2, so SIDEWAYS.
C10_Witness ==
  /\ SectorsDone
  /\ \E k \in 1..Len(sector_analyses) :
       /\ UpIn(Members(sector_analyses[k].sector)) = 3
       /\ DownIn(Members(sector_analyses[k].sector)) = 2
       /\ FlatIn(Members(sector_analyses[k].sector)) = 1
       /\ sector_analyses[k].trend_direction = "SIDEWAYS"

\* C11: analyze_sectors partitions its input by sector tag: exactly one
\* SectorAnalysis per distinct tag of the input (a tag outside the taxonomy
\* included), none for a taxonomy sector without a member, every stock_count
\* is the size of its group and at least 1, and the counts sum to the
\* number of input snapshots.
C11_Partition ==
  SectorsDone =>
    LET ks == 1..Len(sector_analyses)
    IN /\ {sector_analyses[k].sector : k \in ks} =
            {stock_data[i].sector : i \in Indices}
       /\ \A j, k \in ks :
            sector_analyses[j].sector = sector_analyses[k].sector => j = k
       /\ \A t \in Taxonomy :
            Members(t) = {} => \A k \in ks : sector_analyses[k].sector # t
       /\ \A k \in ks :
            /\ sector_analyses[k].stock_count >= 1
            /\ sector_analyses[k].stock_count =
                 Cardinality(Members(sector_analyses[k].sector))
       /\ SumSeq([k \in ks |-> sector_analyses[k].stock_count]) =
            Len(stock_data)

\* C11 witness: a list with one UNKNOWN snapshot among TECH snapshots gives
\* two analyses, the UNKNOWN one of count 1, and nothing for BANKING.
C11_Witness ==
  /\ SectorsDone
  /\ Len(stock_data) = 5
  /\ Len(sector_analyses) = 2
  /\ \E k \in 1..2 :
       /\ sector_analyses[k].sector = "UNKNOWN"
       /\ sector_analyses[k].stock_count = 1
  /\ \E k \in 1..2 :
       /\ sector_analyses[k].sector = "TECH"
       /\ sector_analyses[k].stock_count = 4
  /\ Members("BANKING") = {}

(***************************************************************************)
(* Properties of the indicator functions (SpecInd).                        *)
(***************************************************************************)
\* sum of the rises, and of the falls, from prices[i] to the last price
RECURSIVE GainFrom(_)
GainFrom(i) ==
  IF i >= Len(prices) THEN 0
  ELSE (IF prices[i + 1] > prices[i] THEN prices[i + 1] - prices[i] ELSE 0)
       + GainFrom(i + 1)

RECURSIVE LossFrom(_)
LossFrom(i) ==
  IF i >= Len(prices) THEN 0
  ELSE (IF prices[i + 1] < prices[i] THEN prices[i] - prices[i + 1] ELSE 0)
       + LossFrom(i + 1)

\* the same sums over the most recent `period` deltas
WindowGain == GainFrom(Len(prices) - period)
WindowLoss == LossFrom(Len(prices) - period)

\* C12: _calculate_rsi returns 50.0 for fewer than period + 1 prices; with
\* at least period + 1 prices it returns 100.0 when the most recent `period`
\* deltas hold no loss, and otherwise 100 - 100 / (1 + avg_gain / avg_loss)
\* over those deltas only, which is 100 * gain / (gain + loss).
C12_Rsi ==
  pc = "rsi" =>
    IF Len(prices) < period + 1 THEN result = Rat(50, 1)
    ELSE IF WindowLoss = 0 THEN result = Rat(100, 1)
    ELSE /\ result.d > 0
         /\ result.n * (WindowGain + WindowLoss) = 100 * WindowGain * result.d

\* C12 witness: a series longer than period + 1 whose window holds a gain
\* and a loss, and whose older deltas would change the averages.
C12_Witness ==
  /\ pc = "rsi"
  /\ Len(prices) > period + 1
  /\ WindowGain > 0
  /\ WindowLoss > 0
  /\ GainFrom(1) * WindowLoss # WindowGain * LossFrom(1)
  /\ result \notin {Rat(50, 1), Rat(100, 1)}

\* the same sums over the deltas the slice [-period:] selects, which are all
\* the deltas when fewer than `period` exist
SliceFirst == IF Len(prices) - period < 1 THEN 1 ELSE Len(prices) - period
SliceGain == GainFrom(SliceFirst)
SliceLoss == LossFrom(SliceFirst)

\* C13 as stated: for every series and every period >= 1 the RSI is in
\* [0, 100], and it is 0 exactly when the last `period` deltas hold no gain
\* but at least one loss.
C13_ZeroIffNoGainButLoss ==
  pc = "rsi" =>
    /\ result.n >= 0
    /\ result.n <= 100 * result.d
    /\ result.n = 0 <=> (SliceGain = 0 /\ SliceLoss > 0)

\* C13: the RSI is in [0, 100]; with at least period + 1 prices it is 0
\* exactly when the last `period` deltas hold no gain but at least one loss;
\* with fewer than period + 1 prices it is 50 whatever the deltas are.
C13_RsiRange ==
  pc = "rsi" =>
    /\ result.d > 0
    /\ result.n >= 0
    /\ result.n <= 100 * result.d
    /\ result.n = 0 <=>
         (Len(prices) >= period + 1 /\ WindowGain = 0 /\ WindowLoss > 0)
    /\ Len(prices) < period + 1 => result = Rat(50, 1)

\* C13 witness: an RSI of 0 on a series that rose before its window and
\* only fell inside it.
C13_Witness ==
  /\ pc = "rsi"
  /\ Len(prices) > period + 1
  /\ GainFrom(1) > 0
  /\ WindowGain = 0
  /\ WindowLoss > 0
  /\ result = Rat(0, 1)

\* number of log-returns the volatility is taken over: `period` (the window
\* argument) when at least that many exist, else all of them
ReturnsUsed ==
  IF Len(prices) - 1 >= period THEN period ELSE Len(prices) - 1

\* C15: _calculate_volatility returns 0.0 for fewer than 2 prices, and
\* otherwise the annualized deviation of the most recent `window` log-returns
\* when at least `window` returns exist and of all returns when fewer exist;
\* _calculate_momentum returns 0.0 for fewer than period + 1 prices and
\* otherwise prices[last] / prices[last - period] - 1.
C15_VolatilityMomentum ==
  /\ pc = "volatility" =>
       IF Len(prices) < 2 THEN result = Rat(0, 1)
       ELSE /\ result.times_sqrt_of = 252
            /\ Len(result.std_of) = ReturnsUsed
            /\ \A j \in 1..ReturnsUsed :
                 LET i == Len(prices) - ReturnsUsed + j
                 IN /\ result.std_of[j].log_of = prices[i]
                    /\ result.std_of[j].minus_log_of = prices[i - 1]
  /\ pc = "momentum" =>
       IF Len(prices) < period + 1 THEN result = Rat(0, 1)
       ELSE LET last == Len(prices)
            IN /\ result.d > 0
               /\ result.n * prices[last - period] =
                    (prices[last] - prices[last - period]) * result.d

\* C15 witness: a volatility over a series with more returns than the
\* window, whose oldest return differs from every return of the window.
C15_Witness ==
  /\ pc = "volatility"
  /\ Len(prices) - 1 > period
  /\ Len(result.std_of) = period
  /\ \A j \in 1..period :
       result.std_of[j] # [log_of |-> prices[2], minus_log_of |-> prices[1]]

\* the call just made had too little history for its function
ShortHistory ==
  \/ pc \in {"rsi", "momentum"} /\ Len(prices) < period + 1
  \/ pc = "volatility" /\ Len(prices) < 2
  \/ pc \in {"bollinger", "ema"} /\ Len(prices) < period
  \/ pc = "macd" /\ Len(prices) < slow

\* C16 as stated: on an input with too little history, the empty series and
\* the one-price series included, no indicator function raises and each
\* returns its fallback: RSI 50, volatility, momentum and MACD 0, Bollinger
\* bands both equal to the latest price, EMA the mean of the prices it has.
C16_NoRaiseOnShortHistory ==
  ShortHistory =>
    /\ raised = None
    /\ pc = "rsi" => result = Rat(50, 1)
    /\ pc \in {"volatility", "momentum", "macd"} => result = Rat(0, 1)
    /\ (pc = "bollinger" /\ prices # <<>>) =>
         /\ result.upper = Rat(prices[Len(prices)], 1)
         /\ result.lower = Rat(prices[Len(prices)], 1)
    /\ (pc = "ema" /\ prices # <<>>) =>
         result.n * Len(prices) = SumSeq(prices) * result.d

\* C16, what the code does: the fallbacks above are returned on every short
\* input but one: _calculate_bollinger_bands raises IndexError on the empty
\* series, and on no other input does a function raise.
C16_RaisesOnEmptyBollingerOnly ==
  /\ raised = IndexError <=> (pc = "bollinger" /\ prices = <<>>)
  /\ raised \in {None, IndexError}
  /\ (ShortHistory /\ raised = None) =>
       /\ pc = "rsi" => result = Rat(50, 1)
       /\ pc \in {"volatility", "momentum", "macd"} => result = Rat(0, 1)
       /\ pc = "bollinger" =>
            /\ result.upper = Rat(prices[Len(prices)], 1)
            /\ result.lower = Rat(prices[Len(prices)], 1)
       /\ pc = "ema" =>
            IF prices = <<>> THEN result = NaN
            ELSE result.n * Len(prices) = SumSeq(prices) * result.d

\* C16 witness: the Bollinger call on the empty series ended in IndexError.
C16_Witness ==
  /\ pc = "bollinger"
  /\ prices = <<>>
  /\ raised = IndexError

\* power b^e of integers
RECURSIVE Pow(_, _)
Pow(b, e) == IF e = 0 THEN 1 ELSE b * Pow(b, e - 1)

\* numerator of the EMA of prices[1..i] with multiplier 2 / (n + 1), seeded
\* at prices[1], over the denominator (n + 1)^(i - 1):
\*   ema_1 = prices[1],  ema_i = prices[i] * 2/(n+1) + ema_(i-1) * (n-1)/(n+1)
RECURSIVE EmaNum(_, _)
EmaNum(n, i) ==
  IF i = 1 THEN prices[1]
  ELSE 2 * prices[i] * Pow(n + 1, i - 2) + (n - 1) * EmaNum(n, i - 1)

\* the same numerator for the EMA seeded at prices[from] instead
RECURSIVE EmaNumFrom(_, _, _)
EmaNumFrom(n, from, i) ==
  IF i = from THEN prices[from]
  ELSE 2 * prices[i] * Pow(n + 1, i - from - 1)
       + (n - 1) * EmaNumFrom(n, from, i - 1)

\* C17: _calculate_macd returns 0.0 for fewer than `slow` prices; otherwise
\* EMA(fast) - EMA(slow), each EMA seeded with the first price of the whole
\* series and folded with multiplier 2 / (period + 1) over every later
\* price (an EMA whose period exceeds the length is the mean of the series).
C17_Macd ==
  pc = "macd" =>
    IF Len(prices) < slow THEN result = Rat(0, 1)
    ELSE LET L == Len(prices)
             fd == IF L < fast THEN L ELSE Pow(fast + 1, L - 1)
             fn == IF L < fast THEN SumSeq(prices) ELSE EmaNum(fast, L)
             sd == Pow(slow + 1, L - 1)
             sn == EmaNum(slow, L)
         IN /\ result.d > 0
            /\ result = Norm(fn * sd - sn * fd, fd * sd)

\* C17 witness: a MACD over a series longer than `slow` that differs from
\* the MACD the trailing `slow` prices alone would give: the history before
\* the trailing window changes the value.
C17_Witness ==
  /\ pc = "macd"
  /\ fast < slow
  /\ Len(prices) > slow
  /\ LET L == Len(prices)
         from == L - slow + 1
         fd == Pow(fast + 1, slow - 1)
         sd == Pow(slow + 1, slow - 1)
     IN result # Norm(EmaNumFrom(fast, from, L) * sd
                      - EmaNumFrom(slow, from, L) * fd, fd * sd)

(***************************************************************************)
(* Properties of the collection loops and of the run (SpecRun).            *)
(***************************************************************************)
\* positions of the entries of a result list that carry the symbol
EntriesOf(list, sym) == {j \in 1..Len(list) : list[j].symbol = sym}

\* the symbols whose "1y" fetch is finished, and the closes it returned
LongFetched == 1..Len(long_fetch)
LongRows(k) == long_fetch[k].rows
LongCloses(k) == YearCloses(long_fetch[k].rows)

\* mean of the last n closes of the k-th symbol's "1y" frame
MeanOfLast(k, n) ==
  Norm(SumRange(LongCloses(k), LongRows(k) - n + 1, LongRows(k)), n)

\* C14 as stated: with at least 50 but fewer than 200 samples sma_200 equals
\* sma_50, the mean of the last 50 closes; with fewer than 50 samples an
\* IndicatorSet is produced whose sma_50 and sma_200 both equal sma_20.
C14_FallbackCascades ==
  \A k \in LongFetched :
    long_fetch[k].raised = None =>
      \E j \in EntriesOf(technical_indicators, symbols[k]) :
        LET ti == technical_indicators[j]
        IN /\ (LongRows(k) >= 50 /\ LongRows(k) < 200) =>
                (ti.sma_200 = ti.sma_50 /\ ti.sma_50 = MeanOfLast(k, 50))
           /\ LongRows(k) < 50 =>
                (ti.sma_50 = ti.sma_20 /\ ti.sma_200 = ti.sma_20)

\* C14: with at least 50 but fewer than 200 samples the one IndicatorSet of
\* the instrument has sma_200 equal to sma_50, the mean of the last 50
\* closes; with 200 or more, sma_200 is the mean of the last 200 closes;
\* with fewer than 50 samples no IndicatorSet is produced at all, so sma_50
\* is the mean of the last 50 closes in every IndicatorSet.
C14_SmaFallback ==
  \A k \in LongFetched :
    long_fetch[k].raised = None =>
      IF LongRows(k) < 50
      THEN EntriesOf(technical_indicators, symbols[k]) = {}
      ELSE /\ Cardinality(EntriesOf(technical_indicators, symbols[k])) = 1
           /\ \A j \in EntriesOf(technical_indicators, symbols[k]) :
                LET ti == technical_indicators[j]
                IN /\ ti.sma_20 = MeanOfLast(k, 20)
                   /\ ti.sma_50 = MeanOfLast(k, 50)
                   /\ ti.sma_200 =
                        (IF LongRows(k) < 200 THEN ti.sma_50
                         ELSE MeanOfLast(k, 200))

\* C14 witness: a frame of 199 rows gave an IndicatorSet whose sma_200 is
\* its sma_50 and not the mean of the 199 closes, and a frame of 49 rows
\* gave none.
C14_Witness ==
  /\ \E k \in LongFetched :
       /\ long_fetch[k].raised = None
       /\ LongRows(k) = 199
       /\ \E j \in EntriesOf(technical_indicators, symbols[k]) :
            /\ technical_indicators[j].sma_200 = technical_indicators[j].sma_50
            /\ technical_indicators[j].sma_200 # MeanOfLast(k, 199)
            /\ technical_indicators[j].sma_50 # technical_indicators[j].sma_20
  /\ \E k \in LongFetched :
       /\ long_fetch[k].raised = None
       /\ LongRows(k) = 49
       /\ EntriesOf(technical_indicators, symbols[k]) = {}

\* the symbols whose "5d" fetch is finished
ShortFetched == 1..Len(short_fetch)

\* the "5d" fetch of the k-th symbol raised, or returned fewer than 2 rows
ShortFailed(k) ==
  \/ short_fetch[k].history.raised # None
  \/ Len(short_fetch[k].history.value) < 2

\* the "5d" fetch gave at least 2 rows and stock.info raised
LookupFailed(k) == ~ShortFailed(k) /\ short_fetch[k].info.raised # None

\* the "5d" fetch gave at least 2 rows and stock.info returned no marketCap
CapMissing(k) ==
  /\ ~ShortFailed(k)
  /\ short_fetch[k].info.raised = None
  /\ short_fetch[k].info.value.marketCap = Nothing

\* the "1y" fetch of the k-th symbol raised, or returned fewer than 50 rows
LongFailed(k) == long_fetch[k].raised # None \/ long_fetch[k].rows < 50

\* position of a symbol in the iterated list
PositionOf(sym) == CHOOSE k \in 1..Len(symbols) : symbols[k] = sym

\* a result list follows the order of the iterated list, one entry at most
\* per symbol
InInputOrder(list) ==
  \A a, b \in 1..Len(list) :
    a < b => PositionOf(list[a].symbol) < PositionOf(list[b].symbol)

\* the run is past the named loop
PastCollect == pc \notin {"collect"}
PastTechnical == pc \notin {"collect", "technical"}

\* C18: a failure while one instrument is processed (the fetch raises, or
\* the history is empty or too short) never aborts collect_stock_data or
\* calculate_technical_indicators: the instrument is left out, every other
\* instrument is processed and kept, no exception leaves either loop, and
\* each result list follows the input order with at most one entry per
\* symbol.
C18_LoopsSurviveFailures ==
  /\ \A k \in ShortFetched :
       /\ ShortFailed(k) => EntriesOf(stock_data, symbols[k]) = {}
       /\ (~ShortFailed(k) /\ ~CapMissing(k)) =>
            Cardinality(EntriesOf(stock_data, symbols[k])) = 1
  /\ \A k \in LongFetched :
       /\ LongFailed(k) => EntriesOf(technical_indicators, symbols[k]) = {}
       /\ ~LongFailed(k) =>
            Cardinality(EntriesOf(technical_indicators, symbols[k])) = 1
  /\ InInputOrder(stock_data)
  /\ InInputOrder(technical_indicators)
  /\ PastCollect => Len(short_fetch) = Len(symbols)
  /\ PastTechnical => Len(long_fetch) = Len(symbols)
  /\ pc \in {"collect", "technical", "sectors"} => raised = None

\* C18 witness: both loops are finished; the first symbol's "5d" fetch
\* raised and the second symbol was collected; the first symbol's "1y"
\* frame gave an IndicatorSet and the second symbol's frame was too short.
C18_Witness ==
  /\ PastTechnical
  /\ short_fetch[1].history.raised # None
  /\ EntriesOf(stock_data, symbols[2]) # {}
  /\ EntriesOf(technical_indicators, symbols[1]) # {}
  /\ long_fetch[2].raised = None
  /\ long_fetch[2].rows < 50
  /\ raised = None

RunOrder ==
  <<"collect_stock_data", "calculate_technical_indicators",
    "analyze_sectors", "assess_market_overview",
    "create_comprehensive_data_report", "_export_data_for_agents">>

\* how many times a step has finished
TimesRun(name) == Cardinality({t \in 1..Len(trace) : trace[t].step = name})

\* C20: in every execution of run_comprehensive_data_collection the steps
\* finish in the order collection, indicators, sector aggregation, market
\* assessment, report, export, none of them twice; the two aggregations
\* start only when both loops have finished every symbol of the universe,
\* both are handed the one snapshot list collection returned, report and
\* export come after both, and no later step changes the snapshot list or
\* an aggregation result.
C20_AggregationBarrier ==
  /\ Len(trace) <= Len(RunOrder)
  /\ \A t \in 1..Len(trace) : trace[t].step = RunOrder[t]
  /\ \A t \in 1..Len(trace) : trace[t].read = stock_data
  /\ pc \in {"assessed", "export", "returned", "raised"} =>
       /\ TimesRun("analyze_sectors") = 1
       /\ TimesRun("assess_market_overview") = 1
       /\ sector_analyses = analyze_sectors(stock_data)
       /\ market_overview = assess_market_overview(stock_data)
  /\ TimesRun("analyze_sectors") + TimesRun("assess_market_overview") > 0 =>
       /\ Len(short_fetch) = Len(symbols)
       /\ Len(long_fetch) = Len(symbols)
       /\ cursor = 0
  /\ pc = "returned" => Len(trace) = Len(RunOrder)
  /\ pc = "raised" => Len(trace) \in {4, 5}

\* C20 witness: a run that returned its reports after one symbol was
\* skipped by each loop and the other was aggregated.
C20_Witness ==
  /\ pc = "returned"
  /\ result = "reports"
  /\ Len(stock_data) = 1
  /\ Len(technical_indicators) = 1
  /\ Len(sector_analyses) = 1
  /\ trace[3].step = "analyze_sectors"
  /\ trace[4].step = "assess_market_overview"
  /\ trace[3].read = trace[4].read
  /\ trace[3].read = stock_data

\* C21 as stated: in every run each IndicatorSet of the result carries the
\* symbol of exactly one InstrumentSnapshot of the same run, whatever the
\* outcomes of the "5d" and "1y" fetches were.
C21_IndicatorHasSnapshot ==
  PastTechnical =>
    \A j \in 1..Len(technical_indicators) :
      Cardinality(EntriesOf(stock_data, technical_indicators[j].symbol)) = 1

\* C21, what the code does: the two loops fetch independently, so a symbol
\* has an IndicatorSet exactly when its "1y" fetch gave at least 50 rows and
\* a snapshot exactly when its "5d" fetch gave a usable frame; an
\* IndicatorSet is without snapshot exactly when the first held and the
\* second did not.  No symbol has two snapshots.
C21_LoopsAreIndependent ==
  PastTechnical =>
    \A k \in 1..Len(symbols) :
      /\ EntriesOf(technical_indicators, symbols[k]) # {} <=> ~LongFailed(k)
      /\ EntriesOf(stock_data, symbols[k]) # {} <=>
           (~ShortFailed(k) /\ ~CapMissing(k))
      /\ Cardinality(EntriesOf(stock_data, symbols[k])) <= 1

\* C21 witness: the run returned with an IndicatorSet for a symbol whose
\* "5d" fetch raised, so that no snapshot of the symbol exists.
C21_Witness ==
  /\ pc = "returned"
  /\ \E k \in 1..Len(symbols) :
       /\ short_fetch[k].history.raised # None
       /\ ~LongFailed(k)
       /\ EntriesOf(technical_indicators, symbols[k]) # {}
       /\ EntriesOf(stock_data, symbols[k]) = {}

(***************************************************************************)
(* Properties of collect_stock_data on any list of identifiers             *)
(* (SpecCollect).                                                          *)
(***************************************************************************)
Registered(sym) == sym \in 1..UniverseSize

\* C22 as stated: every snapshot collect_stock_data produces, for every
\* list of symbols, carries a sector of the taxonomy; an identifier outside
\* the registry gets sector UNKNOWN and a name derived from the identifier.
C22_SectorInTaxonomy ==
  \A j \in 1..Len(stock_data) :
    /\ stock_data[j].sector \in Taxonomy
    /\ ~Registered(stock_data[j].symbol) =>
         /\ stock_data[j].sector = "UNKNOWN"
         /\ stock_data[j].company_name.text =
              ReplaceNS(Identifier(stock_data[j].symbol))

\* C22: a snapshot of a registry symbol carries the taxonomy sector that
\* lists the symbol and the listed name; a snapshot of an identifier outside
\* the registry carries sector UNKNOWN, which is no taxonomy entry, and as
\* name the identifier with every ".NS" removed.
C22_SectorOfRegistryOrUnknown ==
  \A j \in 1..Len(stock_data) :
    LET sd == stock_data[j]
    IN IF Registered(sd.symbol)
       THEN /\ sd.sector \in Taxonomy
            /\ sd.sector = SectorNames[((sd.symbol - 1) \div StocksPerSector) + 1]
            /\ sd.company_name = [listed_name_of |-> sd.symbol]
       ELSE /\ sd.sector = "UNKNOWN"
            /\ sd.sector \notin Taxonomy
            /\ \A i \in 1..Len(sd.company_name.text) :
                 sd.company_name.text[i] # ".NS"
            /\ \E keep \in SUBSET (1..Len(Identifier(sd.symbol))) :
                 /\ \A i \in 1..Len(Identifier(sd.symbol)) :
                      i \in keep <=> Identifier(sd.symbol)[i] # ".NS"
                 /\ Len(sd.company_name.text) = Cardinality(keep)
                 /\ \A i \in keep :
                      sd.company_name.text[Cardinality({h \in keep : h <= i})]
                        = Identifier(sd.symbol)[i]

\* C22 witness: a finished collection holding a registry symbol under its
\* sector and the identifier ".NSB.NS" under UNKNOWN with the name "B".
C22_Witness ==
  /\ pc = "technical"
  /\ Len(stock_data) = 2
  /\ \E j \in 1..2 :
       Registered(stock_data[j].symbol) /\ stock_data[j].sector \in Taxonomy
  /\ \E j \in 1..2 :
       /\ ~Registered(stock_data[j].symbol)
       /\ Identifier(stock_data[j].symbol) = <<".NS", "B", ".NS">>
       /\ stock_data[j].sector = "UNKNOWN"
       /\ stock_data[j].company_name.text = <<"B">>

(***************************************************************************)
(* Properties of a run whose fetches fail (SpecRun).                       *)
(***************************************************************************)
\* both fetches of the k-th symbol of the universe raised
RetrievalFailed(k) ==
  short_fetch[k].history.raised # None /\ long_fetch[k].raised # None

AllRetrievalFailed ==
  /\ Len(short_fetch) = Len(symbols)
  /\ Len(long_fetch) = Len(symbols)
  /\ \A k \in 1..Len(symbols) : RetrievalFailed(k)

\* C23 as stated: a run in which retrieval failed for every instrument of
\* the universe, so that there is no snapshot and no IndicatorSet, does not
\* complete with reports but ends in a raised error.
C23_TotalFailureIsFatal ==
  (/\ AllRetrievalFailed
   /\ stock_data = <<>>
   /\ technical_indicators = <<>>
   /\ pc \notin {"collect", "technical"})
    => pc # "returned"

\* C23: what the run does: no fetch outcome, total failure included, raises
\* out of the four computing steps; an error leaves the run only from the
\* report or the export step, after market assessment has finished, and a
\* run that returns hands back the reports whatever was collected.
C23_OnlyReportingRaises ==
  /\ pc \in {"collect", "technical", "sectors", "market", "assessed"}
       => raised = None
  /\ raised # None =>
       /\ pc = "raised"
       /\ TimesRun("assess_market_overview") = 1
       /\ TimesRun("_export_data_for_agents") = 0
  /\ pc = "returned" => result = "reports" /\ raised = None

\* C23 witness: every fetch of the universe raised, both lists are empty,
\* the overview is the empty default, and the run returned its reports.
C23_Witness ==
  /\ pc = "returned"
  /\ result = "reports"
  /\ AllRetrievalFailed
  /\ stock_data = <<>>
  /\ technical_indicators = <<>>
  /\ sector_analyses = <<>>
  /\ TimesRun("create_comprehensive_data_report") = 1

(***************************************************************************)
(* Further properties of the aggregations (SpecAgg).                       *)
(***************************************************************************)
\* sum of the changes of the members S, in 1/PctScale percent
SumIn(S) == SumSeq([i \in 1..Len(stock_data) |->
                        IF i \in S THEN stock_data[i].price_change_pct ELSE 0])

\* C24: for all counts (checked each time analyze_sectors is about to run,
\* and on the counts of every sector it analysed) the UPTREND condition
\* (positive > 1.5 * negative) and the DOWNTREND condition
\* (negative > 1.5 * positive) never hold
\* together, so the order of the two tests does not matter; the trend label
\* follows the two counts and the strength label the mean alone, so that a
\* sector can be UPTREND and WEAK at once.
C24_TrendExclusive ==
  /\ pc = "sectors" =>
       \A up, down \in 0..MaxSectorInput :
         /\ ~(2 * up > 3 * down /\ 2 * down > 3 * up)
         /\ TrendDirection(up, down) = "UPTREND" <=> 2 * up > 3 * down
         /\ TrendDirection(up, down) = "DOWNTREND" <=> 2 * down > 3 * up
  /\ SectorsDone =>
       \A k \in 1..Len(sector_analyses) :
         LET sa == sector_analyses[k]
             S == Members(sa.sector)
             up == UpIn(S)
             down == DownIn(S)
             n == Cardinality(S)
             sum == SumIn(S)
         IN /\ sa.trend_direction = "UPTREND" <=> 2 * up > 3 * down
            /\ sa.trend_direction = "DOWNTREND" <=> 2 * down > 3 * up
            /\ sa.sector_strength = "STRONG" <=> sum > 2 * PctScale * n
            /\ sa.sector_strength = "WEAK" <=> sum <= 0
            /\ sa.sector_strength = "MODERATE"
                 <=> (sum > 0 /\ sum <= 2 * PctScale * n)

\* C24 witness: a sector of two small gainers and one large loser is
\* UPTREND (2 > 1.5 * 1) and WEAK (negative mean).
C24_Witness ==
  /\ SectorsDone
  /\ \E k \in 1..Len(sector_analyses) :
       /\ UpIn(Members(sector_analyses[k].sector)) = 2
       /\ DownIn(Members(sector_analyses[k].sector)) = 1
       /\ FlatIn(Members(sector_analyses[k].sector)) = 0
       /\ SumIn(Members(sector_analyses[k].sector)) < 0
       /\ sector_analyses[k].trend_direction = "UPTREND"
       /\ sector_analyses[k].sector_strength = "WEAK"

(***************************************************************************)
(* Further properties of the classifier (SpecSignal).                      *)
(***************************************************************************)
\* C25: the summed score of _determine_signal_strength lies in -4..4 (an
\* RSI term in -2..2, a MACD term in -1..1, at most one trend term in
\* -1..1); STRONG_UP is returned only if RSI < 30 and STRONG_DOWN only if
\* RSI > 70; with RSI in [30, 70] the label is UP, NEUTRAL or DOWN.
C25_ScoreRange ==
  Classified =>
    /\ Len(signals) \in 2..3
    /\ signals[1] \in -2..2
    /\ \A i \in 2..Len(signals) : signals[i] \in -1..1
    /\ Total \in -4..4
    /\ signal_strength = "STRONG_UP" => rsi < 30
    /\ signal_strength = "STRONG_DOWN" => rsi > 70
    /\ (rsi >= 30 /\ rsi <= 70) =>
         /\ Total \in -2..2
         /\ signal_strength \in {"UP", "NEUTRAL", "DOWN"}

\* C25 witness: RSI 25 (term +1), a positive MACD and a rising trend give
\* the score 3 and STRONG_UP, although RSI is not below 20.
C25_Witness ==
  /\ Classified
  /\ rsi = 25
  /\ signals = <<1, 1, 1>>
  /\ signal_strength = "STRONG_UP"

(***************************************************************************)
(* Further properties of the indicator functions (SpecInd).                *)
(***************************************************************************)
\* the most recent `period` deltas hold no decrease
NoDecreaseInWindow ==
  \A i \in (Len(prices) - period)..(Len(prices) - 1) :
    prices[i + 1] >= prices[i]

FlatSeries == \A i, j \in 1..Len(prices) : prices[i] = prices[j]

\* C26: on a series of at least period + 1 prices _calculate_rsi returns
\* 100.0 whenever the most recent `period` deltas hold no decrease, whatever
\* the older deltas are; in particular a flat series, which has neither a
\* gain nor a loss, gives 100.0 and not the neutral 50.0 or 0.
C26_NoDecreaseIsHundred ==
  (pc = "rsi" /\ Len(prices) >= period + 1) =>
    /\ NoDecreaseInWindow => result = Rat(100, 1)
    /\ FlatSeries =>
         /\ WindowGain = 0
         /\ WindowLoss = 0
         /\ result = Rat(100, 1)

\* C26 witness: a flat series longer than period + 1 with RSI 100.
C26_Witness ==
  /\ pc = "rsi"
  /\ Len(prices) > period + 1
  /\ FlatSeries
  /\ result = Rat(100, 1)

(***************************************************************************)
(* The market summary of a run without movement (SpecAgg).                 *)
(***************************************************************************)
AllFlat == \A i \in Indices : stock_data[i].price_change_pct = 0

\* C27: a non-empty run in which every change is exactly 0 has no advancing
\* and no declining stock and gets the breadth 2.0 (not the 1.0 of the empty
\* default), sentiment NEUTRAL and fear/greed NEUTRAL; the breadth 2.0 is
\* also the breadth of a run with twice as many advancing as declining
\* stocks, so it arises in exactly these two ways: no declining stock in a
\* non-empty run, or advancing = 2 * declining > 0.
C27_FlatRunBreadth ==
  Assessed =>
    LET a == UpIn(Indices)
        d == DownIn(Indices)
        breadth == market_overview.market_breadth
        IsTwo == breadth.d > 0 /\ breadth.n = 2 * breadth.d
    IN /\ (stock_data # <<>> /\ AllFlat) =>
            /\ market_overview.advancing_stocks = 0
            /\ market_overview.declining_stocks = 0
            /\ IsTwo
            /\ breadth # Rat(1, 1)
            /\ market_overview.market_volatility_sq.n = 0
            /\ market_overview.market_sentiment = "NEUTRAL"
            /\ market_overview.fear_greed_index = "NEUTRAL"
       /\ (d > 0 /\ a = 2 * d) => IsTwo
       /\ IsTwo <=> \/ stock_data # <<>> /\ d = 0
                    \/ d > 0 /\ a = 2 * d

\* C27 witness: a run of three snapshots, all with a change of exactly 0,
\* assessed with breadth 2.0 and both labels NEUTRAL.
C27_Witness ==
  /\ Assessed
  /\ Len(stock_data) = 3
  /\ AllFlat
  /\ market_overview.market_breadth = Rat(2, 1)
  /\ market_overview.market_sentiment = "NEUTRAL"
  /\ market_overview.fear_greed_index = "NEUTRAL"

=============================================================================
